---- MODULE Spec2Model ----
(***************************************************************************)
(* The Wavefront OBJ mesh loader of demos/26_bitmap_fonts/src/obj_parser.rs *)
(* as a state machine: a counting pass over the lines of the file, a rewind,*)
(* a second pass that fills the Attribute Store and expands faces, and the   *)
(* final mesh.  Lines are sequences of one-character strings, and every      *)
(* classification and scan is computed on those characters.                  *)
(***************************************************************************)
EXTENDS Integers, Sequences, FiniteSets, TLC

VARIABLES
    file,                  \* the lines of the reader, in file order
    pc,                    \* "Counting", "Parsing", "Done", "Failed", "Panicked";
                           \* in load_obj_file, before File::open: "Opening" when
                           \* the path opens, "OpeningMissing" when it does not
    cursor,                \* number of lines the current pass has consumed
    unsorted_vp_count,     \* count_vertices: `v ` lines counted so far
    unsorted_vt_count,     \* count_vertices: `vt` lines counted so far
    unsorted_vn_count,     \* count_vertices: `vn` lines counted so far
    face_count,            \* count_vertices: `f` lines counted so far
    unsorted_vtn,          \* UnsortedVertexData: [vp, vt, vn] flat arrays
    sorted_vtn,            \* SortedVertexData: [points, tex_coords, normals]
    current_unsorted_vp,   \* write cursor of unsorted_vtn.vp (in slots)
    current_unsorted_vt,   \* write cursor of unsorted_vtn.vt (in slots)
    current_unsorted_vn,   \* write cursor of unsorted_vtn.vn (in slots)
    origin,                \* history: per buffer, the <<line, ref>> of each vertex pushed
    result,                \* what load_obj_mesh returned
    previous               \* what the earlier load of the same file returned

vars == <<file, pc, cursor, unsorted_vp_count, unsorted_vt_count,
          unsorted_vn_count, face_count, unsorted_vtn, sorted_vtn,
          current_unsorted_vp, current_unsorted_vt, current_unsorted_vn,
          origin, result, previous>>

----------------------------------------------------------------------------
(* Bounds of the model. *)

\* longest file of the general specification, in lines
MaxLines == 3

\* longest file of the face-expansion specification, in lines
MaxMeshLines == 5

\* longest file of the face-grammar specification, in lines
MaxFaceLines == 4

----------------------------------------------------------------------------
(* Option<T> and small helpers. *)

None == [some |-> FALSE]

Some(v) == [some |-> TRUE, val |-> v]

\* 0-based indexing of a Vec or byte slice
At(s, k) == s[k + 1]

\* the largest value of an unsigned integer type (u32::MAX, usize::MAX); the
\* checker's integers end at 2^31 - 1, which stands for it: every length and
\* index of the model is far below
UMax == 2147483647

\* the longest digit string whose value is computed
MaxDigits == 9

Digit == [c \in {"0", "1", "2", "3", "4", "5", "6", "7", "8", "9"} |->
            CASE c = "0" -> 0 [] c = "1" -> 1 [] c = "2" -> 2 [] c = "3" -> 3
              [] c = "4" -> 4 [] c = "5" -> 5 [] c = "6" -> 6 [] c = "7" -> 7
              [] c = "8" -> 8 [] c = "9" -> 9]

IsDigit(c) == c \in DOMAIN Digit

RECURSIVE DigitsValue(_, _)
\* the number written by a sequence of decimal digits, left to right
DigitsValue(ds, acc) ==
    IF ds = <<>> THEN acc ELSE DigitsValue(Tail(ds), 10 * acc + Digit[Head(ds)])

AllDigits(ds) == \A k \in 1..Len(ds) : IsDigit(ds[k])

\* str::parse::<u32>: an optional '+', then one or more digits, at most
\* u32::MAX (longer digit strings than MaxDigits are taken to exceed it)
ParseU32(tok) ==
    LET ds == IF tok # <<>> /\ Head(tok) = "+" THEN Tail(tok) ELSE tok
    IN  IF ds = <<>> \/ ~AllDigits(ds) THEN None
        ELSE IF Len(ds) > MaxDigits THEN None
        ELSE Some(DigitsValue(ds, 0))

RECURSIVE Normalise(_, _)
\* a decimal <<mantissa, fraction digits>> without trailing zero digits
Normalise(m, e) ==
    IF m = 0 THEN <<0, 0>>
    ELSE IF e > 0 /\ m % 10 = 0 THEN Normalise(m \div 10, e - 1)
    ELSE <<m, e>>

\* str::parse::<f32> on plain decimals: [+-] digits [. digits], at least one
\* digit; the value is kept as the decimal it denotes
ParseF32(tok) ==
    LET neg  == tok # <<>> /\ Head(tok) = "-"
        body == IF tok # <<>> /\ Head(tok) \in {"+", "-"} THEN Tail(tok) ELSE tok
        dots == {k \in 1..Len(body) : body[k] = "."}
        dot  == IF dots = {} THEN Len(body) + 1 ELSE CHOOSE k \in dots : TRUE
        ip   == SubSeq(body, 1, dot - 1)
        fp   == SubSeq(body, dot + 1, Len(body))
        n    == Normalise(DigitsValue(ip \o fp, 0), Len(fp))
    IN  IF Cardinality(dots) > 1 \/ ~AllDigits(ip \o fp) \/ ip \o fp = <<>>
           \/ Len(ip \o fp) > MaxDigits
        THEN None
        ELSE Some(IF neg THEN <<0 - n[1], n[2]>> ELSE n)

----------------------------------------------------------------------------
(* scan_fmt!: the format scanner the parser calls on every v/vt/vn/f line. *)

IsWhitespace(c) == c \in {" ", "\t", "\n", "\r"}

RECURSIVE SkipWhitespace(_, _)
\* first position >= p of s that holds no whitespace (Len(s) + 1 at the end)
SkipWhitespace(s, p) ==
    IF p <= Len(s) /\ IsWhitespace(s[p]) THEN SkipWhitespace(s, p + 1) ELSE p

RECURSIVE ScanNonWsOrEnd(_, _, _)
\* end of the token starting at p: the first whitespace, `end`, or the end
ScanNonWsOrEnd(s, p, end) ==
    IF p <= Len(s) /\ ~IsWhitespace(s[p]) /\ s[p] # end
    THEN ScanNonWsOrEnd(s, p + 1, end) ELSE p

RECURSIVE ScanLoop(_, _, _, _, _)
\* the scanner's main loop; the formats of this parser hold only `{}` fields
ScanLoop(input, fmt, ip, fp, res) ==
    LET f == SkipWhitespace(fmt, fp)
        i == SkipWhitespace(input, ip)
    IN  IF f > Len(fmt) \/ i > Len(input) THEN res
        ELSE IF fmt[f] = "{" THEN
            LET f2  == f + 2
                end == IF f2 <= Len(fmt) THEN fmt[f2] ELSE " "
                i2  == ScanNonWsOrEnd(input, i, end)
            IN  ScanLoop(input, fmt, i2, f2, Append(res, SubSeq(input, i, i2 - 1)))
        ELSE IF fmt[f] # input[i] THEN res
        ELSE IF f + 1 > Len(fmt) \/ i + 1 > Len(input) THEN res
        ELSE ScanLoop(input, fmt, i + 1, f + 1, res)

\* the tuple of n Option<u32> the macro returns: the k-th token, parsed
ScanU32(input, fmt, n) ==
    LET res == ScanLoop(input, fmt, 1, 1, <<>>)
    IN  [k \in 1..n |-> IF k <= Len(res) THEN ParseU32(res[k]) ELSE None]

\* the tuple of n Option<f32> the macro returns: the k-th token, parsed
ScanF32(input, fmt, n) ==
    LET res == ScanLoop(input, fmt, 1, 1, <<>>)
    IN  [k \in 1..n |-> IF k <= Len(res) THEN ParseF32(res[k]) ELSE None]

\* "f {}/{}/{} {}/{}/{} {}/{}/{}"
FmtVTN == <<"f", " ", "{", "}", "/", "{", "}", "/", "{", "}", " ",
            "{", "}", "/", "{", "}", "/", "{", "}", " ",
            "{", "}", "/", "{", "}", "/", "{", "}">>

\* "f {}//{} {}//{} {}//{}"
FmtVN == <<"f", " ", "{", "}", "/", "/", "{", "}", " ",
           "{", "}", "/", "/", "{", "}", " ",
           "{", "}", "/", "/", "{", "}">>

\* "v {} {} {}"
FmtV == <<"v", " ", "{", "}", " ", "{", "}", " ", "{", "}">>

\* "vt {} {}"
FmtVT == <<"v", "t", " ", "{", "}", " ", "{", "}">>

\* "vn {} {} {}"
FmtVNormal == <<"v", "n", " ", "{", "}", " ", "{", "}", " ", "{", "}">>

----------------------------------------------------------------------------
(* The input lines the model draws its files from. *)

DigitChar == <<"0", "1", "2", "3", "4", "5", "6", "7", "8", "9">>

RECURSIVE Dec(_)
\* the decimal text of a natural number
Dec(n) == IF n < 10 THEN <<DigitChar[n + 1]>>
          ELSE Dec(n \div 10) \o <<DigitChar[(n % 10) + 1]>>

SP == <<" ">>

\* "v x y z", "vt s t", "vn x y z" with the given field texts
LineV(x, y, z) == <<"v">> \o SP \o x \o SP \o y \o SP \o z

LineVT(s, t) == <<"v", "t">> \o SP \o s \o SP \o t

LineVN(x, y, z) == <<"v", "n">> \o SP \o x \o SP \o y \o SP \o z

\* "p/t/n" and "p//n" vertex references
RefVTN(r) == Dec(r[1]) \o <<"/">> \o Dec(r[2]) \o <<"/">> \o Dec(r[3])

RefVN(r) == Dec(r[1]) \o <<"/", "/">> \o Dec(r[2])

\* "f r0 r1 r2" under either grammar, as the cube fixture writes its faces
LineFaceVTN(r0, r1, r2) ==
    <<"f">> \o SP \o RefVTN(r0) \o SP \o RefVTN(r1) \o SP \o RefVTN(r2)

LineFaceVN(r0, r1, r2) ==
    <<"f">> \o SP \o RefVN(r0) \o SP \o RefVN(r1) \o SP \o RefVN(r2)

\* leading blanks and a trailing backslash, as every line of the fixture has
Framed(l) == <<" ", " ">> \o l \o <<" ", "\\">>

PosA == LineV(Dec(1), Dec(2), Dec(3))

PosB == LineV(Dec(4), Dec(5), Dec(6))

TexA == LineVT(Dec(7), Dec(8))

NormA == LineVN(<<"0", ".", "0">>, <<"-", "1", ".", "0">>, <<"0", ".", "5">>)

NormB == LineVN(Dec(1), Dec(0), Dec(0))

FaceVTN111 == LineFaceVTN(<<1, 1, 1>>, <<1, 1, 1>>, <<1, 1, 1>>)

FaceVN111 == LineFaceVN(<<1, 1>>, <<1, 1>>, <<1, 1>>)

\* position index 0
FaceVN011 == LineFaceVN(<<0, 1>>, <<1, 1>>, <<1, 1>>)

\* position index 2: count + 1 when one `v` line is declared
FaceVN211 == LineFaceVN(<<2, 1>>, <<1, 1>>, <<1, 1>>)

\* position index 4: 3 * count + 1 when one `v` line is declared
FaceVN411 == LineFaceVN(<<4, 1>>, <<1, 1>>, <<1, 1>>)

\* position index 4 on the second vertex, after a first vertex in range
FaceVN141 == LineFaceVN(<<1, 1>>, <<4, 1>>, <<1, 1>>)

\* a face without slashes, and a quad with 8 slashes
FaceNoSlash == <<"f">> \o SP \o Dec(1) \o SP \o Dec(1) \o SP \o Dec(1)

FaceQuad ==
    LineFaceVN(<<1, 1>>, <<1, 1>>, <<1, 1>>) \o SP \o RefVN(<<1, 1>>)

\* an object line, as in the fixture
ObjectLine == <<"o", " ", "x">>

\* the lines of the general specification
Catalog ==
    { Framed(PosA), TexA, Framed(NormA), FaceVN111, FaceVTN111, FaceVN011,
      FaceVN211, FaceVN411, FaceNoSlash, FaceQuad, Framed(ObjectLine) }

\* two positions, two normals and p//n faces whose references differ
OrderCatalog ==
    { PosA, PosB, NormA, NormB,
      LineFaceVN(<<2, 1>>, <<1, 2>>, <<1, 1>>),
      LineFaceVN(<<1, 2>>, <<2, 2>>, <<2, 1>>) }

\* one declaration of each kind and one face of each grammar
MixedCatalog == { PosA, TexA, NormA, FaceVTN111, FaceVN111 }

\* a line of length 0
EmptyLine == <<>>

\* a line whose last byte is `v`
LoneV == <<" ", "v">>

\* a position with too few fields, and one with a field that is no number
PosShort == <<"v">> \o SP \o Dec(1) \o SP \o Dec(2)

PosWord == LineV(Dec(1), <<"x">>, Dec(3))

\* a texture coordinate with too few fields
TexShort == <<"v", "t">> \o SP \o Dec(7)

\* a normal with a field that is no number
NormWord == LineVN(Dec(1), Dec(0), <<"-">>)

\* a face with 6 slashes that is written in neither grammar
FaceNeither ==
    <<"f">> \o SP \o Dec(1) \o <<"/">> \o Dec(1) \o SP \o Dec(1) \o <<"/">> \o Dec(1)
            \o SP \o Dec(1) \o <<"/">> \o Dec(1) \o SP \o Dec(1) \o <<"/">> \o Dec(1)
            \o SP \o Dec(1) \o <<"/">> \o Dec(1) \o SP \o Dec(1) \o <<"/">> \o Dec(1)

\* lines a file may hold that the format does not allow, among lines it allows
HostileCatalog ==
    { EmptyLine, LoneV, PosShort, PosWord, TexShort, NormWord, FaceNeither,
      PosA, NormA, FaceVN111, ObjectLine }

\* one declaration of each kind, one face of each grammar, one of neither and
\* one whose second vertex is out of range
FaceCatalog == { PosA, TexA, NormA, FaceVTN111, FaceVN111, FaceNeither, FaceVN141 }

RECURSIVE Wide(_)
\* a line with every blank doubled, as the fixture separates its fields
Wide(l) == IF l = <<>> THEN <<>>
           ELSE (IF Head(l) = " " THEN <<" ", " ">> ELSE <<Head(l)>>) \o Wide(Tail(l))

F0 == <<"0", ".", "0">>

F1 == <<"1", ".", "0">>

FM1 == <<"-", "1", ".", "0">>

CubeV(x, y, z) == Framed(Wide(LineV(x, y, z)))

CubeVN(x, y, z) == Framed(Wide(LineVN(x, y, z)))

CubeF(r0, r1, r2) == Framed(Wide(LineFaceVN(r0, r1, r2)))

\* the obj_file of parser_tests::test, line by line (runs of blanks shortened)
CubeFixture ==
    << <<" ", " ", "\\">>,
       Framed(<<"o", " ", "o", "b", "j", "e", "c", "t", "1">>),
       Framed(<<"g", " ", "c", "u", "b", "e">>),
       CubeV(F0, F0, F0), CubeV(F0, F0, F1), CubeV(F0, F1, F0), CubeV(F0, F1, F1),
       CubeV(F1, F0, F0), CubeV(F1, F0, F1), CubeV(F1, F1, F0), CubeV(F1, F1, F1),
       <<" ", " ", "\\">>,
       CubeVN(F0, F0, F1), CubeVN(F0, F0, FM1), CubeVN(F0, F1, F0),
       CubeVN(F0, FM1, F0), CubeVN(F1, F0, F0), CubeVN(FM1, F0, F0),
       <<" ", " ", "\\">>,
       CubeF(<<1, 2>>, <<7, 2>>, <<5, 2>>), CubeF(<<1, 2>>, <<3, 2>>, <<7, 2>>),
       CubeF(<<1, 6>>, <<4, 6>>, <<3, 6>>), CubeF(<<1, 6>>, <<2, 6>>, <<4, 6>>),
       CubeF(<<3, 3>>, <<8, 3>>, <<7, 3>>), CubeF(<<3, 3>>, <<4, 3>>, <<8, 3>>),
       CubeF(<<5, 5>>, <<7, 5>>, <<8, 5>>), CubeF(<<5, 5>>, <<8, 5>>, <<6, 5>>),
       CubeF(<<1, 4>>, <<5, 4>>, <<6, 4>>), CubeF(<<1, 4>>, <<6, 4>>, <<2, 4>>),
       CubeF(<<2, 1>>, <<6, 1>>, <<8, 1>>), CubeF(<<2, 1>>, <<8, 1>>, <<4, 1>>),
       <<" ", " ">> >>

\* all sequences of at most n lines drawn from a catalog
FilesOver(cat, n) == UNION { [1..k -> cat] : k \in 0..n }

----------------------------------------------------------------------------
(* Outcomes of a step that can panic. *)

Panic == [panic |-> TRUE]

Value(v) == [panic |-> FALSE, val |-> v]

\* a - b on an unsigned integer type: on a < b a build with overflow checks
\* panics and a build without them wraps around the type's largest value
WrappingSub(a, b, overflow_checks) ==
    IF a >= b THEN Value(a - b)
    ELSE IF overflow_checks THEN Panic
    ELSE Value(UMax - (b - a) + 1)

----------------------------------------------------------------------------
(* skip_spaces and the classification of a line by its first bytes. *)

RECURSIVE SkipFrom(_, _, _)
\* the while loop of skip_spaces from `index`, with `last` = bytes.len() - 1;
\* reading bytes[index] past the end panics
SkipFrom(bytes, index, last) ==
    IF index < last
    THEN IF index >= Len(bytes) THEN Panic
         ELSE IF At(bytes, index) = " " \/ At(bytes, index) = "\\"
              THEN SkipFrom(bytes, index + 1, last)
              ELSE Value(index)
    ELSE Value(index)

\* skip_spaces: the index of the first byte that is neither ' ' nor '\', never
\* beyond the last byte; bytes.len() - 1 underflows on an empty line
skip_spaces(bytes, overflow_checks) ==
    LET last == WrappingSub(Len(bytes), 1, overflow_checks)
    IN  IF last.panic THEN Panic ELSE SkipFrom(bytes, 0, last.val)

\* CountClass without the look at the byte after `v`: every `v` line counts
\* as a position
CountClass_any_v(bytes, overflow_checks) ==
    LET s == skip_spaces(bytes, overflow_checks)
    IN  IF s.panic THEN "panic"
        ELSE IF At(bytes, s.val) = "v" THEN "vp"
        ELSE IF At(bytes, s.val) = "f" THEN "f"
        ELSE "other"

\* the match of count_vertices on one line: which counter the line bumps
CountClass(bytes, overflow_checks) ==
    LET s == skip_spaces(bytes, overflow_checks)
    IN  IF s.panic THEN "panic"
        ELSE LET i == s.val
             IN  IF At(bytes, i) = "v"
                 THEN IF i + 1 >= Len(bytes) THEN "panic"
                      ELSE IF At(bytes, i + 1) = " " THEN "vp"
                      ELSE IF At(bytes, i + 1) = "t" THEN "vt"
                      ELSE IF At(bytes, i + 1) = "n" THEN "vn"
                      ELSE "other"
                 ELSE IF At(bytes, i) = "f" THEN "f"
                 ELSE "other"

\* the if/else chain of load_obj_mesh on one line
ParseClass(bytes, overflow_checks) ==
    LET s == skip_spaces(bytes, overflow_checks)
    IN  IF s.panic THEN "panic"
        ELSE LET i == s.val
             IN  IF At(bytes, i) = "v"
                 THEN IF i + 1 >= Len(bytes) THEN "panic"
                      ELSE IF At(bytes, i + 1) = " " THEN "vp"
                      ELSE IF At(bytes, i + 1) = "t" THEN "vt"
                      ELSE IF At(bytes, i + 1) = "n" THEN "vn"
                      ELSE "other"
                 ELSE IF At(bytes, i) = "f" THEN "f"
                 ELSE "other"

\* the slash count of a face line, over bytes[i..]
SlashCount(bytes, i) == Cardinality({j \in (i + 1)..Len(bytes) : bytes[j] = "/"})

----------------------------------------------------------------------------
(* parse_vtn and parse_vn. *)

Ok(v) == [kind |-> "Ok", val |-> v]

\* an Err return: `val` is sorted_vtn as the call left it behind
Err(e, sorted) == [kind |-> "Err", error |-> e, val |-> sorted]

Panicked == [kind |-> "Panic"]

is_valid_vtn_triple(tuple) == \A k \in 1..9 : tuple[k].some

is_valid_vn_triple(tuple) == \A k \in 1..6 : tuple[k].some

RECURSIVE ValidateIndices(_, _)
\* the validation loop: `index - 1 >= len` on u32, one <<index, len>> after the
\* other; an index of 0 underflows
ValidateIndices(checks, overflow_checks) ==
    IF checks = <<>> THEN "ok"
    ELSE IF Head(checks)[1] = 0 /\ overflow_checks THEN "panic"
    ELSE IF WrappingSub(Head(checks)[1], 1, overflow_checks).val >= Head(checks)[2]
    THEN "err"
    ELSE ValidateIndices(Tail(checks), overflow_checks)

\* the reads array[(index - 1) * width + k], k < width, of the copy loop
Slot(array, index, width) ==
    IF index < 1 \/ (index - 1) * width + width - 1 >= Len(array) THEN Panic
    ELSE Value([k \in 1..width |-> At(array, (index - 1) * width + k - 1)])

\* the floats the copy loop reads for the three vertices of a face from one
\* array, or a panic on a read outside the array
Gather(array, indices, width) ==
    IF \E j \in 1..3 : Slot(array, indices[j], width).panic THEN Panic
    ELSE Value(Slot(array, indices[1], width).val
                 \o Slot(array, indices[2], width).val
                 \o Slot(array, indices[3], width).val)

\* how the validation loop ends a parse: a panic, the index error, or the copy
AfterValidation(valid, copied, sorted) ==
    IF valid = "panic" THEN Panicked
    ELSE IF valid = "err" THEN Err("IndexOutOfRange", sorted)
    ELSE copied

\* the copy loop of parse_vtn with the pushes to tex_coords forgotten
CopyVTN_without_tex_coords(ps, ts, ns, sorted) ==
    IF ps.panic \/ ts.panic \/ ns.panic THEN Panicked
    ELSE Ok([points     |-> sorted.points \o ps.val,
             tex_coords |-> sorted.tex_coords,
             normals    |-> sorted.normals \o ns.val])

\* the copy loop of parse_vtn: ps, ts, ns are what it reads
CopyVTN(ps, ts, ns, sorted) ==
    IF ps.panic \/ ts.panic \/ ns.panic THEN Panicked
    ELSE Ok([points     |-> sorted.points \o ps.val,
             tex_coords |-> sorted.tex_coords \o ts.val,
             normals    |-> sorted.normals \o ns.val])

\* the <<index, len>> pairs the validation loop of parse_vtn compares, in order
ChecksVTN(vp, vt, vn, unsorted) ==
    << <<vp[1], Len(unsorted.vp)>>, <<vt[1], Len(unsorted.vt)>>,
       <<vn[1], Len(unsorted.vn)>>,
       <<vp[2], Len(unsorted.vp)>>, <<vt[2], Len(unsorted.vt)>>,
       <<vn[2], Len(unsorted.vn)>>,
       <<vp[3], Len(unsorted.vp)>>, <<vt[3], Len(unsorted.vt)>>,
       <<vn[3], Len(unsorted.vn)>> >>

\* parse_vtn from the unwrapped indices on: validation loop, then copy loop
IndexedVTN(vp, vt, vn, unsorted, sorted, overflow_checks) ==
    AfterValidation(
        ValidateIndices(ChecksVTN(vp, vt, vn, unsorted), overflow_checks),
        CopyVTN(Gather(unsorted.vp, vp, 3), Gather(unsorted.vt, vt, 2),
                Gather(unsorted.vn, vn, 3), sorted),
        sorted)

\* parse_vtn from the scanned tuple on
ScannedVTN(tuple, unsorted, sorted, overflow_checks) ==
    IF ~is_valid_vtn_triple(tuple) THEN Err("InvalidFaceDeclaration", sorted)
    ELSE IndexedVTN(<<tuple[1].val, tuple[4].val, tuple[7].val>>,
                    <<tuple[2].val, tuple[5].val, tuple[8].val>>,
                    <<tuple[3].val, tuple[6].val, tuple[9].val>>,
                    unsorted, sorted, overflow_checks)

\* parse_vtn: the line under "f p/t/n p/t/n p/t/n"
parse_vtn(line, unsorted, sorted, overflow_checks) ==
    ScannedVTN(ScanU32(line, FmtVTN, 9), unsorted, sorted, overflow_checks)

\* the copy loop of parse_vn with the pushes to normals forgotten
CopyVN_without_normals(ps, ns, sorted) ==
    IF ps.panic \/ ns.panic THEN Panicked
    ELSE Ok([points     |-> sorted.points \o ps.val,
             tex_coords |-> sorted.tex_coords,
             normals    |-> sorted.normals])

\* the copy loop of parse_vn running over 0..2 instead of 0..3: the third
\* vertex of the face is never appended
CopyVN_two_vertices(ps, ns, sorted) ==
    IF ps.panic \/ ns.panic THEN Panicked
    ELSE Ok([points     |-> sorted.points \o SubSeq(ps.val, 1, 6),
             tex_coords |-> sorted.tex_coords,
             normals    |-> sorted.normals \o SubSeq(ns.val, 1, 6)])

\* the copy loop of parse_vn pushing two zeros per vertex to tex_coords, to
\* keep the three buffers parallel
CopyVN_padding_tex_coords(ps, ns, sorted) ==
    IF ps.panic \/ ns.panic THEN Panicked
    ELSE Ok([points     |-> sorted.points \o ps.val,
             tex_coords |-> sorted.tex_coords \o <<<<0, 0>>, <<0, 0>>, <<0, 0>>,
                                                    <<0, 0>>, <<0, 0>>, <<0, 0>>>>,
             normals    |-> sorted.normals \o ns.val])

\* the copy loop of parse_vn: ps, ns are what it reads
CopyVN(ps, ns, sorted) ==
    IF ps.panic \/ ns.panic THEN Panicked
    ELSE Ok([points     |-> sorted.points \o ps.val,
             tex_coords |-> sorted.tex_coords,
             normals    |-> sorted.normals \o ns.val])

\* the <<index, len>> pairs the validation loop of parse_vn compares, in order
ChecksVN(vp, vn, unsorted) ==
    << <<vp[1], Len(unsorted.vp)>>, <<vn[1], Len(unsorted.vn)>>,
       <<vp[2], Len(unsorted.vp)>>, <<vn[2], Len(unsorted.vn)>>,
       <<vp[3], Len(unsorted.vp)>>, <<vn[3], Len(unsorted.vn)>> >>

\* parse_vn with one loop that validates and copies vertex by vertex: the
\* first vertex is appended before the second is found out of range
IndexedVN_vertex_by_vertex(vp, vn, unsorted, sorted, overflow_checks) ==
    IF /\ ValidateIndices(SubSeq(ChecksVN(vp, vn, unsorted), 1, 2), overflow_checks) = "ok"
       /\ ValidateIndices(ChecksVN(vp, vn, unsorted), overflow_checks) = "err"
       /\ ~Slot(unsorted.vp, vp[1], 3).panic
       /\ ~Slot(unsorted.vn, vn[1], 3).panic
    THEN Err("IndexOutOfRange",
             [points     |-> sorted.points \o Slot(unsorted.vp, vp[1], 3).val,
              tex_coords |-> sorted.tex_coords,
              normals    |-> sorted.normals \o Slot(unsorted.vn, vn[1], 3).val])
    ELSE AfterValidation(
             ValidateIndices(ChecksVN(vp, vn, unsorted), overflow_checks),
             CopyVN(Gather(unsorted.vp, vp, 3), Gather(unsorted.vn, vn, 3), sorted),
             sorted)

\* parse_vn from the unwrapped indices on: validation loop, then copy loop
IndexedVN(vp, vn, unsorted, sorted, overflow_checks) ==
    AfterValidation(
        ValidateIndices(ChecksVN(vp, vn, unsorted), overflow_checks),
        CopyVN(Gather(unsorted.vp, vp, 3), Gather(unsorted.vn, vn, 3), sorted),
        sorted)

\* parse_vn from the scanned tuple on
ScannedVN(tuple, unsorted, sorted, overflow_checks) ==
    IF ~is_valid_vn_triple(tuple) THEN Err("InvalidFaceDeclaration", sorted)
    ELSE IndexedVN(<<tuple[1].val, tuple[3].val, tuple[5].val>>,
                   <<tuple[2].val, tuple[4].val, tuple[6].val>>,
                   unsorted, sorted, overflow_checks)

\* parse_vn: the line under "f p//n p//n p//n"
parse_vn(line, unsorted, sorted, overflow_checks) ==
    ScannedVN(ScanU32(line, FmtVN, 6), unsorted, sorted, overflow_checks)

----------------------------------------------------------------------------
(* One line of the second pass of load_obj_mesh. *)

\* the f32 zero the Attribute Store is filled with
Zero == <<0, 0>>

ZeroVec(n) == [k \in 1..n |-> Zero]

\* array[cur * width + k] = fields[k].unwrap() for k < width
WriteSlot(array, cur, width, fields) ==
    IF \E k \in 1..width : ~fields[k].some THEN Panic
    ELSE IF cur * width + width - 1 >= Len(array) THEN Panic
    ELSE Value([k \in 1..Len(array) |->
                  IF k > cur * width /\ k <= cur * width + width
                  THEN fields[k - cur * width].val ELSE array[k]])

\* what a line did: how it ended ("next", "err", "panic"), the error, the
\* grammar that expanded it, and the locals of load_obj_mesh after it
Step(out, error, grammar, unsorted, sorted, vp, vt, vn) ==
    [out |-> out, error |-> error, grammar |-> grammar, unsorted |-> unsorted,
     sorted |-> sorted, vp |-> vp, vt |-> vt, vn |-> vn]

\* Fallback that goes on to the next line when neither grammar matched
Fallback_skipping_malformed(vtn, vn, unsorted, sorted, cvp, cvt, cvn) ==
    IF vtn.kind = "Panic"
    THEN Step("panic", "none", "none", unsorted, sorted, cvp, cvt, cvn)
    ELSE IF vtn.kind = "Ok"
    THEN Step("next", "none", "vtn", unsorted, vtn.val, cvp, cvt, cvn)
    ELSE IF vn.kind = "Panic"
    THEN Step("panic", "none", "none", unsorted, sorted, cvp, cvt, cvn)
    ELSE IF vn.kind = "Ok"
    THEN Step("next", "none", "vn", unsorted, vn.val, cvp, cvt, cvn)
    ELSE Step("next", "none", "none", unsorted, sorted, cvp, cvt, cvn)

\* Fallback that never attempts the second grammar
Fallback_first_grammar_only(vtn, vn, unsorted, sorted, cvp, cvt, cvn) ==
    IF vtn.kind = "Panic"
    THEN Step("panic", "none", "none", unsorted, sorted, cvp, cvt, cvn)
    ELSE IF vtn.kind = "Ok"
    THEN Step("next", "none", "vtn", unsorted, vtn.val, cvp, cvt, cvn)
    ELSE Step("err", "MalformedFaceLine", "none", unsorted, vtn.val, cvp, cvt, cvn)

\* the face branch after the slash count: the result of parse_vtn, and on its
\* Err the result of parse_vn
Fallback(vtn, vn, unsorted, sorted, cvp, cvt, cvn) ==
    IF vtn.kind = "Panic"
    THEN Step("panic", "none", "none", unsorted, sorted, cvp, cvt, cvn)
    ELSE IF vtn.kind = "Ok"
    THEN Step("next", "none", "vtn", unsorted, vtn.val, cvp, cvt, cvn)
    ELSE IF vn.kind = "Panic"
    THEN Step("panic", "none", "none", unsorted, sorted, cvp, cvt, cvn)
    ELSE IF vn.kind = "Ok"
    THEN Step("next", "none", "vn", unsorted, vn.val, cvp, cvt, cvn)
    ELSE Step("err", "MalformedFaceLine", "none", unsorted, vn.val, cvp, cvt, cvn)

\* the `&mut sorted_vtn` handed to parse_vn: the buffers as parse_vtn left
\* them
LeftBy(vtn, sorted) == IF vtn.kind = "Panic" THEN sorted ELSE vtn.val

\* the face branch without the slash count
FaceStep_without_slash_count(line, i, unsorted, sorted, cvp, cvt, cvn, overflow_checks) ==
    Fallback(parse_vtn(line, unsorted, sorted, overflow_checks),
             parse_vn(line, unsorted,
                      LeftBy(parse_vtn(line, unsorted, sorted, overflow_checks), sorted),
                      overflow_checks),
             unsorted, sorted, cvp, cvt, cvn)

\* the face branch: the slash count over bytes[i..], then parse_vtn, then
\* parse_vn
FaceStep(line, i, unsorted, sorted, cvp, cvt, cvn, overflow_checks) ==
    IF SlashCount(line, i) # 6
    THEN Step("err", "UnsupportedTopology", "none", unsorted, sorted, cvp, cvt, cvn)
    ELSE Fallback(parse_vtn(line, unsorted, sorted, overflow_checks),
                  parse_vn(line, unsorted,
                           LeftBy(parse_vtn(line, unsorted, sorted, overflow_checks), sorted),
                           overflow_checks),
                  unsorted, sorted, cvp, cvt, cvn)

\* AttributeStep with the `current_unsorted_* += 1` forgotten
AttributeStep_without_advance(class, w, unsorted, sorted, cvp, cvt, cvn) ==
    IF w.panic THEN Step("panic", "none", "none", unsorted, sorted, cvp, cvt, cvn)
    ELSE Step("next", "none", "none", [unsorted EXCEPT ![class] = w.val], sorted,
              cvp, cvt, cvn)

\* AttributeStep that also pushes the floats of a `v` line to points, as a
\* loader without an index stage does
AttributeStep_appending(class, w, unsorted, sorted, cvp, cvt, cvn) ==
    IF w.panic THEN Step("panic", "none", "none", unsorted, sorted, cvp, cvt, cvn)
    ELSE Step("next", "none", "none", [unsorted EXCEPT ![class] = w.val],
              IF class = "vp"
              THEN [sorted EXCEPT !.points = @ \o SubSeq(w.val, cvp * 3 + 1, cvp * 3 + 3)]
              ELSE sorted,
              cvp + (IF class = "vp" THEN 1 ELSE 0),
              cvt + (IF class = "vt" THEN 1 ELSE 0),
              cvn + (IF class = "vn" THEN 1 ELSE 0))

\* a `v `, `vt` or `vn` branch: w is the array after the write
AttributeStep(class, w, unsorted, sorted, cvp, cvt, cvn) ==
    IF w.panic THEN Step("panic", "none", "none", unsorted, sorted, cvp, cvt, cvn)
    ELSE Step("next", "none", "none", [unsorted EXCEPT ![class] = w.val], sorted,
              cvp + (IF class = "vp" THEN 1 ELSE 0),
              cvt + (IF class = "vt" THEN 1 ELSE 0),
              cvn + (IF class = "vn" THEN 1 ELSE 0))

\* the body of the second loop, from the class of the line on
ClassStep(class, line, unsorted, sorted, cvp, cvt, cvn, overflow_checks) ==
    CASE class = "panic" ->
            Step("panic", "none", "none", unsorted, sorted, cvp, cvt, cvn)
      [] class = "other" ->
            Step("next", "none", "none", unsorted, sorted, cvp, cvt, cvn)
      [] class = "vp" ->
            AttributeStep(class, WriteSlot(unsorted.vp, cvp, 3, ScanF32(line, FmtV, 3)),
                          unsorted, sorted, cvp, cvt, cvn)
      [] class = "vt" ->
            AttributeStep(class, WriteSlot(unsorted.vt, cvt, 2, ScanF32(line, FmtVT, 2)),
                          unsorted, sorted, cvp, cvt, cvn)
      [] class = "vn" ->
            AttributeStep(class,
                          WriteSlot(unsorted.vn, cvn, 3, ScanF32(line, FmtVNormal, 3)),
                          unsorted, sorted, cvp, cvt, cvn)
      [] class = "f" ->
            FaceStep(line, skip_spaces(line, overflow_checks).val, unsorted, sorted,
                     cvp, cvt, cvn, overflow_checks)

\* what one iteration of the second loop does with a line
LineStep(line, unsorted, sorted, cvp, cvt, cvn, overflow_checks) ==
    ClassStep(ParseClass(line, overflow_checks), line, unsorted, sorted,
              cvp, cvt, cvn, overflow_checks)

\* ObjMesh::new with the division by 3 forgotten
ObjMesh_new_undivided(points, tex_coords, normals) ==
    [point_count |-> Len(points), points |-> points,
     tex_coords |-> tex_coords, normals |-> normals]

\* ObjMesh::new
ObjMesh_new(points, tex_coords, normals) ==
    [point_count |-> Len(points) \div 3, points |-> points,
     tex_coords |-> tex_coords, normals |-> normals]

NoResult == [tag |-> "None"]

----------------------------------------------------------------------------
(* The state machine. *)

\* load_obj_mesh is entered with the reader at its start and nothing counted
InitOver(files) ==
    /\ file \in files
    /\ pc = "Counting"
    /\ cursor = 0
    /\ unsorted_vp_count = 0
    /\ unsorted_vt_count = 0
    /\ unsorted_vn_count = 0
    /\ face_count = 0
    /\ unsorted_vtn = [vp |-> <<>>, vt |-> <<>>, vn |-> <<>>]
    /\ sorted_vtn = [points |-> <<>>, tex_coords |-> <<>>, normals |-> <<>>]
    /\ current_unsorted_vp = 0
    /\ current_unsorted_vt = 0
    /\ current_unsorted_vn = 0
    /\ origin = [points |-> <<>>, tex_coords |-> <<>>, normals |-> <<>>]
    /\ result = NoResult
    /\ previous = NoResult

Init == InitOver(FilesOver(Catalog, MaxLines) \cup {CubeFixture})

InitMixed == InitOver(FilesOver(MixedCatalog, MaxMeshLines))

InitOrder == InitOver(FilesOver(OrderCatalog, MaxMeshLines) \cup {CubeFixture})

InitHostile == InitOver(FilesOver(HostileCatalog, MaxLines))

InitFace == InitOver(FilesOver(FaceCatalog, MaxFaceLines))

\* load_obj_file is entered with a path that names a file or with one that
\* cannot be opened
InitPath ==
    /\ \/ pc = "Opening" /\ file \in FilesOver(Catalog, MaxLines)
       \/ pc = "OpeningMissing" /\ file = <<>>
    /\ cursor = 0
    /\ unsorted_vp_count = 0
    /\ unsorted_vt_count = 0
    /\ unsorted_vn_count = 0
    /\ face_count = 0
    /\ unsorted_vtn = [vp |-> <<>>, vt |-> <<>>, vn |-> <<>>]
    /\ sorted_vtn = [points |-> <<>>, tex_coords |-> <<>>, normals |-> <<>>]
    /\ current_unsorted_vp = 0
    /\ current_unsorted_vt = 0
    /\ current_unsorted_vn = 0
    /\ origin = [points |-> <<>>, tex_coords |-> <<>>, normals |-> <<>>]
    /\ result = NoResult
    /\ previous = NoResult

\* load_obj_file going on to load_obj_mesh although File::open failed
OpenErr_unreported ==
    /\ pc = "OpeningMissing"
    /\ pc' = "Counting"
    /\ UNCHANGED <<file, cursor, unsorted_vp_count, unsorted_vt_count,
                   unsorted_vn_count, face_count, unsorted_vtn, sorted_vtn,
                   current_unsorted_vp, current_unsorted_vt, current_unsorted_vn,
                   origin, result, previous>>

\* load_obj_file: File::open fails and the file-not-found error is returned
OpenErr ==
    /\ pc = "OpeningMissing"
    /\ pc' = "Failed"
    /\ result' = [tag |-> "Err", error |-> "FileNotFound"]
    /\ UNCHANGED <<file, cursor, unsorted_vp_count, unsorted_vt_count,
                   unsorted_vn_count, face_count, unsorted_vtn, sorted_vtn,
                   current_unsorted_vp, current_unsorted_vt, current_unsorted_vn,
                   origin, previous>>

\* load_obj_file: File::open succeeds, a BufReader is put on the file and
\* load_obj_mesh is entered with it
OpenOk ==
    /\ pc = "Opening"
    /\ pc' = "Counting"
    /\ UNCHANGED <<file, cursor, unsorted_vp_count, unsorted_vt_count,
                   unsorted_vn_count, face_count, unsorted_vtn, sorted_vtn,
                   current_unsorted_vp, current_unsorted_vt, current_unsorted_vn,
                   origin, result, previous>>

\* one iteration of the loop of count_vertices
CountLine ==
    /\ pc = "Counting"
    /\ cursor < Len(file)
    /\ \E overflow_checks \in BOOLEAN :
         \E class \in {CountClass(file[cursor + 1], overflow_checks)} :
             /\ pc' = IF class = "panic" THEN "Panicked" ELSE "Counting"
             /\ unsorted_vp_count' = unsorted_vp_count + (IF class = "vp" THEN 1 ELSE 0)
             /\ unsorted_vt_count' = unsorted_vt_count + (IF class = "vt" THEN 1 ELSE 0)
             /\ unsorted_vn_count' = unsorted_vn_count + (IF class = "vn" THEN 1 ELSE 0)
             /\ face_count' = face_count + (IF class = "f" THEN 1 ELSE 0)
    /\ cursor' = cursor + 1
    /\ UNCHANGED <<file, unsorted_vtn, sorted_vtn, current_unsorted_vp,
                   current_unsorted_vt, current_unsorted_vn, origin, result,
                   previous>>

\* the end of count_vertices and the allocations with the factors 3, 2, 3 of
\* the array sizes forgotten
CountReturn_unscaled ==
    /\ pc = "Counting"
    /\ cursor = Len(file)
    /\ cursor' = 0
    /\ pc' = "Parsing"
    /\ unsorted_vtn' = [vp |-> ZeroVec(unsorted_vp_count),
                        vt |-> ZeroVec(unsorted_vt_count),
                        vn |-> ZeroVec(unsorted_vn_count)]
    /\ sorted_vtn' = [points |-> <<>>, tex_coords |-> <<>>, normals |-> <<>>]
    /\ current_unsorted_vp' = 0
    /\ current_unsorted_vt' = 0
    /\ current_unsorted_vn' = 0
    /\ UNCHANGED <<file, unsorted_vp_count, unsorted_vt_count, unsorted_vn_count,
                   face_count, origin, result, previous>>

\* the end of count_vertices with the seek to the start forgotten
CountReturn_without_seek ==
    /\ pc = "Counting"
    /\ cursor = Len(file)
    /\ cursor' = cursor
    /\ pc' = "Parsing"
    /\ unsorted_vtn' = [vp |-> ZeroVec(3 * unsorted_vp_count),
                        vt |-> ZeroVec(2 * unsorted_vt_count),
                        vn |-> ZeroVec(3 * unsorted_vn_count)]
    /\ sorted_vtn' = [points |-> <<>>, tex_coords |-> <<>>, normals |-> <<>>]
    /\ current_unsorted_vp' = 0
    /\ current_unsorted_vt' = 0
    /\ current_unsorted_vn' = 0
    /\ UNCHANGED <<file, unsorted_vp_count, unsorted_vt_count, unsorted_vn_count,
                   face_count, origin, result, previous>>

\* the end of count_vertices: the rewind, the return of the counts, and the
\* allocation of the Attribute Store and the output buffers by load_obj_mesh
CountReturn ==
    /\ pc = "Counting"
    /\ cursor = Len(file)
    /\ cursor' = 0
    /\ pc' = "Parsing"
    /\ unsorted_vtn' = [vp |-> ZeroVec(3 * unsorted_vp_count),
                        vt |-> ZeroVec(2 * unsorted_vt_count),
                        vn |-> ZeroVec(3 * unsorted_vn_count)]
    /\ sorted_vtn' = [points |-> <<>>, tex_coords |-> <<>>, normals |-> <<>>]
    /\ current_unsorted_vp' = 0
    /\ current_unsorted_vt' = 0
    /\ current_unsorted_vn' = 0
    /\ UNCHANGED <<file, unsorted_vp_count, unsorted_vt_count, unsorted_vn_count,
                   face_count, origin, result, previous>>

\* the <<line, reference>> pairs of the three vertices a face line appends
Refs(n) == <<<<n, 0>>, <<n, 1>>, <<n, 2>>>>

\* one iteration of the second loop of load_obj_mesh
ParseLine ==
    /\ pc = "Parsing"
    /\ cursor < Len(file)
    /\ \E overflow_checks \in BOOLEAN :
         \E s \in {LineStep(file[cursor + 1], unsorted_vtn, sorted_vtn,
                           current_unsorted_vp, current_unsorted_vt,
                           current_unsorted_vn, overflow_checks)} :
             /\ pc' = CASE s.out = "panic" -> "Panicked"
                        [] s.out = "err" -> "Failed"
                        [] s.out = "next" -> "Parsing"
             /\ result' = IF s.out = "err" THEN [tag |-> "Err", error |-> s.error]
                          ELSE result
             /\ unsorted_vtn' = s.unsorted
             /\ sorted_vtn' = s.sorted
             /\ current_unsorted_vp' = s.vp
             /\ current_unsorted_vt' = s.vt
             /\ current_unsorted_vn' = s.vn
             /\ origin' =
                  [points     |-> origin.points \o
                                    (IF s.grammar = "none" THEN <<>> ELSE Refs(cursor + 1)),
                   tex_coords |-> origin.tex_coords \o
                                    (IF s.grammar = "vtn" THEN Refs(cursor + 1) ELSE <<>>),
                   normals    |-> origin.normals \o
                                    (IF s.grammar = "none" THEN <<>> ELSE Refs(cursor + 1))]
    /\ cursor' = cursor + 1
    /\ UNCHANGED <<file, unsorted_vp_count, unsorted_vt_count, unsorted_vn_count,
                   face_count, previous>>

\* the end of load_obj_mesh: every line was consumed, the mesh is returned
MeshReturn ==
    /\ pc = "Parsing"
    /\ cursor = Len(file)
    /\ pc' = "Done"
    /\ result' = [tag |-> "Ok",
                  mesh |-> ObjMesh_new(sorted_vtn.points, sorted_vtn.tex_coords,
                                       sorted_vtn.normals)]
    /\ UNCHANGED <<file, cursor, unsorted_vp_count, unsorted_vt_count,
                   unsorted_vn_count, face_count, unsorted_vtn, sorted_vtn,
                   current_unsorted_vp, current_unsorted_vt, current_unsorted_vn,
                   origin, previous>>

\* a second load through the reader of the first, which was left at its end
Reload_same_reader ==
    /\ pc = "Done"
    /\ previous = NoResult
    /\ previous' = result
    /\ result' = NoResult
    /\ pc' = "Counting"
    /\ cursor' = cursor
    /\ unsorted_vp_count' = 0
    /\ unsorted_vt_count' = 0
    /\ unsorted_vn_count' = 0
    /\ face_count' = 0
    /\ unsorted_vtn' = [vp |-> <<>>, vt |-> <<>>, vn |-> <<>>]
    /\ sorted_vtn' = [points |-> <<>>, tex_coords |-> <<>>, normals |-> <<>>]
    /\ current_unsorted_vp' = 0
    /\ current_unsorted_vt' = 0
    /\ current_unsorted_vn' = 0
    /\ origin' = [points |-> <<>>, tex_coords |-> <<>>, normals |-> <<>>]
    /\ UNCHANGED file

\* load_obj_file called again on the path of a file that loaded: the file is
\* opened anew, so the reader is at its start, and every local of
\* count_vertices and load_obj_mesh is fresh
Reload ==
    /\ pc = "Done"
    /\ previous = NoResult
    /\ previous' = result
    /\ result' = NoResult
    /\ pc' = "Counting"
    /\ cursor' = 0
    /\ unsorted_vp_count' = 0
    /\ unsorted_vt_count' = 0
    /\ unsorted_vn_count' = 0
    /\ face_count' = 0
    /\ unsorted_vtn' = [vp |-> <<>>, vt |-> <<>>, vn |-> <<>>]
    /\ sorted_vtn' = [points |-> <<>>, tex_coords |-> <<>>, normals |-> <<>>]
    /\ current_unsorted_vp' = 0
    /\ current_unsorted_vt' = 0
    /\ current_unsorted_vn' = 0
    /\ origin' = [points |-> <<>>, tex_coords |-> <<>>, normals |-> <<>>]
    /\ UNCHANGED file

Next == CountLine \/ CountReturn \/ ParseLine \/ MeshReturn \/ Reload

\* files of every kind of line, up to MaxLines lines, and the cube fixture
Spec == Init /\ [][Next]_vars

\* files of both face grammars, up to MaxMeshLines lines
SpecMixed == InitMixed /\ [][Next]_vars

\* files of two positions and two normals, up to MaxMeshLines lines, and the
\* cube fixture
SpecOrder == InitOrder /\ [][Next]_vars

\* files that hold malformed lines, up to MaxLines lines
SpecHostile == InitHostile /\ [][Next]_vars

\* files of faces of either grammar and of neither, up to MaxFaceLines lines
SpecFace == InitFace /\ [][Next]_vars

NextPath ==
    OpenErr \/ OpenOk \/ CountLine \/ CountReturn \/ ParseLine \/ MeshReturn \/ Reload

\* load_obj_file on a path that opens or does not, files up to MaxLines lines
SpecPath == InitPath /\ [][NextPath]_vars

----------------------------------------------------------------------------
(* The loader of demo 06 (06_vcam_with_quaternion).  Its skip_spaces,
   count_vertices, attribute branches, ObjMesh::new and test fixture are those
   of demo 26 line for line; its face branch is its own: one grammar, the
   indices checked against the counts, and panic!() where demo 26 returns
   Err. *)

\* one range check of the face loop, `index - 1 < 0 || index - 1 >= count` on
\* usize: TRUE when the loop panics on it
OutOfRange06(index, count, overflow_checks) ==
    \/ WrappingSub(index, 1, overflow_checks).panic
    \/ WrappingSub(index, 1, overflow_checks).val >= count

\* the pushes of the face loop: ps, ts, ns are what it reads
Copy06(ps, ts, ns, sorted) ==
    IF ps.panic \/ ts.panic \/ ns.panic THEN Panicked
    ELSE Ok([points     |-> sorted.points \o ps.val,
             tex_coords |-> sorted.tex_coords \o ts.val,
             normals    |-> sorted.normals \o ns.val])

\* the face loop from the unwrapped indices on: a panic on the first index
\* out of range, else three vertices pushed
Indexed06(vp, vt, vn, vp_count, vt_count, vn_count, unsorted, sorted, overflow_checks) ==
    IF \E j \in 1..3 : \/ OutOfRange06(vp[j], vp_count, overflow_checks)
                        \/ OutOfRange06(vt[j], vt_count, overflow_checks)
                        \/ OutOfRange06(vn[j], vn_count, overflow_checks)
    THEN Panicked
    ELSE Copy06(Gather(unsorted.vp, vp, 3), Gather(unsorted.vt, vt, 2),
                Gather(unsorted.vn, vn, 3), sorted)

\* the face branch from the scanned tuple on: the nine unwraps, then the loop
Scanned06(tuple, vp_count, vt_count, vn_count, unsorted, sorted, overflow_checks) ==
    IF \E k \in 1..9 : ~tuple[k].some THEN Panicked
    ELSE Indexed06(<<tuple[1].val, tuple[4].val, tuple[7].val>>,
                   <<tuple[2].val, tuple[5].val, tuple[8].val>>,
                   <<tuple[3].val, tuple[6].val, tuple[9].val>>,
                   vp_count, vt_count, vn_count, unsorted, sorted, overflow_checks)

\* how the face branch leaves the loop
Face06(r, unsorted, sorted, cvp, cvt, cvn) ==
    IF r.kind = "Ok" THEN Step("next", "none", "vtn", unsorted, r.val, cvp, cvt, cvn)
    ELSE Step("panic", "none", "none", unsorted, sorted, cvp, cvt, cvn)

\* the face branch: the slash count over bytes[i..], then the scan under
\* "f p/t/n p/t/n p/t/n"
FaceStep06(line, i, vp_count, vt_count, vn_count, unsorted, sorted, cvp, cvt, cvn, overflow_checks) ==
    IF SlashCount(line, i) # 6
    THEN Step("panic", "none", "none", unsorted, sorted, cvp, cvt, cvn)
    ELSE Face06(Scanned06(ScanU32(line, FmtVTN, 9), vp_count, vt_count, vn_count,
                          unsorted, sorted, overflow_checks),
                unsorted, sorted, cvp, cvt, cvn)

\* what one iteration of the second loop does with a line
LineStep06(line, vp_count, vt_count, vn_count, unsorted, sorted, cvp, cvt, cvn, overflow_checks) ==
    IF ParseClass(line, overflow_checks) = "f"
    THEN FaceStep06(line, skip_spaces(line, overflow_checks).val, vp_count, vt_count,
                    vn_count, unsorted, sorted, cvp, cvt, cvn, overflow_checks)
    ELSE ClassStep(ParseClass(line, overflow_checks), line, unsorted, sorted,
                   cvp, cvt, cvn, overflow_checks)

Init06 == InitOver(FilesOver(MixedCatalog, MaxFaceLines) \cup {CubeFixture})

\* one iteration of the second loop
ParseLine06 ==
    /\ pc = "Parsing"
    /\ cursor < Len(file)
    /\ \E overflow_checks \in BOOLEAN :
         \E s \in {LineStep06(file[cursor + 1], unsorted_vp_count, unsorted_vt_count,
                             unsorted_vn_count, unsorted_vtn, sorted_vtn,
                             current_unsorted_vp, current_unsorted_vt,
                             current_unsorted_vn, overflow_checks)} :
             /\ pc' = IF s.out = "panic" THEN "Panicked" ELSE "Parsing"
             /\ unsorted_vtn' = s.unsorted
             /\ sorted_vtn' = s.sorted
             /\ current_unsorted_vp' = s.vp
             /\ current_unsorted_vt' = s.vt
             /\ current_unsorted_vn' = s.vn
             /\ origin' =
                  [points     |-> origin.points \o
                                    (IF s.grammar = "none" THEN <<>> ELSE Refs(cursor + 1)),
                   tex_coords |-> origin.tex_coords \o
                                    (IF s.grammar = "vtn" THEN Refs(cursor + 1) ELSE <<>>),
                   normals    |-> origin.normals \o
                                    (IF s.grammar = "none" THEN <<>> ELSE Refs(cursor + 1))]
    /\ cursor' = cursor + 1
    /\ UNCHANGED <<file, unsorted_vp_count, unsorted_vt_count, unsorted_vn_count,
                   face_count, result, previous>>

Next06 == CountLine \/ CountReturn \/ ParseLine06 \/ MeshReturn

\* the loader of demo 06 on files of both face grammars, up to MaxFaceLines
\* lines, and on the cube fixture
Spec06 == Init06 /\ [][Next06]_vars

----------------------------------------------------------------------------
(* What the claims speak of, read off the text of the file. *)

RECURSIVE DropLeading(_)
\* a line without its leading blanks and backslashes
DropLeading(l) ==
    IF l # <<>> /\ Head(l) \in {" ", "\\"} THEN DropLeading(Tail(l)) ELSE l

\* the kind of a line by the bytes that follow its leading blanks and backslashes
KindOf(l) ==
    LET r == DropLeading(l)
    IN  IF Len(r) >= 2 /\ r[1] = "v" /\ r[2] = " " THEN "vp"
        ELSE IF Len(r) >= 2 /\ r[1] = "v" /\ r[2] = "t" THEN "vt"
        ELSE IF Len(r) >= 2 /\ r[1] = "v" /\ r[2] = "n" THEN "vn"
        ELSE IF Len(r) >= 1 /\ r[1] = "f" THEN "f"
        ELSE "other"

\* the number of lines of a kind in the file
NumLines(kind) == Cardinality({k \in 1..Len(file) : KindOf(file[k]) = kind})

\* the lines of a kind, in file order
LinesOf(kind) == SelectSeq(file, LAMBDA l : KindOf(l) = kind)

\* the three vertex references of a face line as [p, n] records, under the
\* grammar the line is written in (<<>> when it is written in neither)
FaceRefs(l) ==
    LET a == ScanU32(l, FmtVTN, 9)
        b == ScanU32(l, FmtVN, 6)
    IN  IF is_valid_vtn_triple(a)
        THEN [j \in 1..3 |-> [p |-> a[3 * j - 2].val, n |-> a[3 * j].val]]
        ELSE IF is_valid_vn_triple(b)
        THEN [j \in 1..3 |-> [p |-> b[2 * j - 1].val, n |-> b[2 * j].val]]
        ELSE <<>>

\* the position indices a face line references
PositionIndices(l) == {FaceRefs(l)[j].p : j \in 1..Len(FaceRefs(l))}

\* the fields a v/vn line declares
Declared(l, fmt) ==
    LET t == ScanF32(l, fmt, 3) IN <<t[1].val, t[2].val, t[3].val>>

\* the second pass is about to read a face line
AtFaceLine == pc = "Parsing" /\ cursor < Len(file) /\ KindOf(file[cursor + 1]) = "f"

ErrResult(e) == [tag |-> "Err", error |-> e]

\* a face line written in grammar p/t/n
IsVTNLine(l) == is_valid_vtn_triple(ScanU32(l, FmtVTN, 9))

\* the grammar a face line is written in: "vtn", "vn" or "none"
FaceGrammar(l) ==
    IF IsVTNLine(l) THEN "vtn"
    ELSE IF is_valid_vn_triple(ScanU32(l, FmtVN, 6)) THEN "vn"
    ELSE "none"

\* every index of a p/t/n tuple is one of a declared attribute
TupleInRangeVTN(a) ==
    \A j \in 1..3 : /\ a[3 * j - 2].val \in 1..NumLines("vp")
                     /\ a[3 * j - 1].val \in 1..NumLines("vt")
                     /\ a[3 * j].val \in 1..NumLines("vn")

\* every index of a p//n tuple is one of a declared attribute
TupleInRangeVN(b) ==
    \A j \in 1..3 : /\ b[2 * j - 1].val \in 1..NumLines("vp")
                     /\ b[2 * j].val \in 1..NumLines("vn")

\* every index of a face line, under the grammar it is written in, is one of a
\* declared attribute
IndicesInRange(l) ==
    \E a \in {ScanU32(l, FmtVTN, 9)} :
        IF is_valid_vtn_triple(a) THEN TupleInRangeVTN(a)
        ELSE \E b \in {ScanU32(l, FmtVN, 6)} :
                 is_valid_vn_triple(b) => TupleInRangeVN(b)

\* a `v`, `vt` or `vn` line with a field that is missing or is no number
MalformedAttribute(l) ==
    CASE KindOf(l) = "vp" -> \E k \in 1..3 : ~ScanF32(l, FmtV, 3)[k].some
      [] KindOf(l) = "vt" -> \E k \in 1..2 : ~ScanF32(l, FmtVT, 2)[k].some
      [] KindOf(l) = "vn" -> \E k \in 1..3 : ~ScanF32(l, FmtVNormal, 3)[k].some
      [] OTHER -> FALSE

\* the floats per slot of the Attribute Store array of a kind
Width(kind) == IF kind = "vt" THEN 2 ELSE 3

\* the fields a `v`, `vt` or `vn` line declares
DeclaredFields(l) ==
    CASE KindOf(l) = "vp" -> [k \in 1..3 |-> ScanF32(l, FmtV, 3)[k].val]
      [] KindOf(l) = "vt" -> [k \in 1..2 |-> ScanF32(l, FmtVT, 2)[k].val]
      [] KindOf(l) = "vn" -> [k \in 1..3 |-> ScanF32(l, FmtVNormal, 3)[k].val]

\* the three write cursors by kind
Cursors == [vp |-> current_unsorted_vp, vt |-> current_unsorted_vt,
            vn |-> current_unsorted_vn]

\* the indices of a face line pass the validation loop of the parser that
\* scans the line, against the Attribute Store as it is
PassesValidation(l) ==
    \E a \in {ScanU32(l, FmtVTN, 9)} :
        IF is_valid_vtn_triple(a)
        THEN \A overflow_checks \in BOOLEAN :
                 ValidateIndices(
                     ChecksVTN(<<a[1].val, a[4].val, a[7].val>>,
                               <<a[2].val, a[5].val, a[8].val>>,
                               <<a[3].val, a[6].val, a[9].val>>, unsorted_vtn),
                     overflow_checks) = "ok"
        ELSE \E b \in {ScanU32(l, FmtVN, 6)} :
                 /\ is_valid_vn_triple(b)
                 /\ \A overflow_checks \in BOOLEAN :
                        ValidateIndices(
                            ChecksVN(<<b[1].val, b[3].val, b[5].val>>,
                                     <<b[2].val, b[4].val, b[6].val>>, unsorted_vtn),
                            overflow_checks) = "ok"

\* the three counts of count_vertices by kind
Counts == [vp |-> unsorted_vp_count, vt |-> unsorted_vt_count,
           vn |-> unsorted_vn_count]

\* the number of lines of a kind among the first n lines of the file
NumLinesUpTo(kind, n) == Cardinality({k \in 1..n : KindOf(file[k]) = kind})

\* the number of face lines of the file written in a grammar
NumFaces(grammar) ==
    Cardinality({k \in 1..Len(file) :
                   KindOf(file[k]) = "f" /\ FaceGrammar(file[k]) = grammar})

RECURSIVE Flat(_)
\* the concatenation of a sequence of sequences
Flat(seqs) == IF seqs = <<>> THEN <<>> ELSE Head(seqs) \o Flat(Tail(seqs))

\* the fields the lines of a kind declare, in file order
DeclaredInOrder(kind) ==
    Flat([k \in 1..Len(LinesOf(kind)) |-> DeclaredFields(LinesOf(kind)[k])])

\* a step of the load in progress, as opposed to the start of another load
SameLoad == previous' = previous

----------------------------------------------------------------------------
(* The claims. *)

\* C1: every mesh load_obj_mesh returns has points.len() == 3 * point_count.
C1_PointsLength ==
    result.tag = "Ok" =>
        Len(result.mesh.points) = 3 * result.mesh.point_count

\* a mesh of two faces, one of each grammar, was returned
C1_Witness ==
    /\ result.tag = "Ok"
    /\ result.mesh.point_count = 6
    /\ Len(result.mesh.tex_coords) = 6

\* C2: every mesh load_obj_mesh returns has tex_coords.len() equal to 0 or to
\* 2 * point_count, also when the faces of the file use both grammars.
C2_TexCoordsLength ==
    result.tag = "Ok" =>
        Len(result.mesh.tex_coords) \in {0, 2 * result.mesh.point_count}

\* C3: every mesh load_obj_mesh returns has normals.len() equal to 0 or to
\* 3 * point_count, whichever grammar each face line used.
C3_NormalsLength ==
    result.tag = "Ok" =>
        Len(result.mesh.normals) \in {0, 3 * result.mesh.point_count}

\* a mesh whose faces used both grammars was returned
C3_Witness ==
    /\ result.tag = "Ok"
    /\ Len(result.mesh.normals) = 18
    /\ Len(origin.tex_coords) = 3

\* C4: in every returned mesh, the position, the normal and (when tex_coords is
\* not empty) the texture coordinate of output vertex i were all appended by
\* the same vertex reference of the same face line.
C4_SameVertex ==
    result.tag = "Ok" =>
        \A i \in 1..result.mesh.point_count :
            /\ i <= Len(origin.normals)
            /\ origin.normals[i] = origin.points[i]
            /\ result.mesh.tex_coords # <<>> =>
                 /\ i <= Len(origin.tex_coords)
                 /\ origin.tex_coords[i] = origin.points[i]

\* C5: a face line that references position index 0 makes load_obj_mesh return
\* an IndexOutOfRange error (no crash, no wrapped index).
C5_IndexZero ==
    [][(AtFaceLine /\ 0 \in PositionIndices(file[cursor + 1]))
         => (pc' = "Failed" /\ result' = ErrResult("IndexOutOfRange"))]_vars

\* C6: a face line that references a position index above the number of `v`
\* lines makes load_obj_mesh return an IndexOutOfRange error, never a crash.
C6_IndexAboveCount ==
    [][(AtFaceLine /\ \E p \in PositionIndices(file[cursor + 1]) : p > NumLines("vp"))
         => (pc' = "Failed" /\ result' = ErrResult("IndexOutOfRange"))]_vars

\* C7: a face line whose slash count is not 6 makes load_obj_mesh return an
\* UnsupportedTopology error, with nothing appended to the output buffers and
\* no crash.
C7_SlashCount ==
    [][(AtFaceLine /\ SlashCount(file[cursor + 1], 0) # 6)
         => /\ pc' = "Failed"
            /\ result' = ErrResult("UnsupportedTopology")
            /\ sorted_vtn' = sorted_vtn]_vars

\* a quad that follows a position and a normal was rejected
C7_Witness ==
    /\ pc = "Failed"
    /\ result = ErrResult("UnsupportedTopology")
    /\ cursor = 3
    /\ file[3] = FaceQuad
    /\ unsorted_vp_count = 1
    /\ unsorted_vn_count = 1

\* C8: every returned mesh has point_count == 3 * (number of face lines of the
\* file); the cube fixture of 12 faces gives 36.
C8_FlatExpansion ==
    result.tag = "Ok" =>
        /\ result.mesh.point_count = 3 * NumLines("f")
        /\ file = CubeFixture => result.mesh.point_count = 36

\* the cube fixture was loaded
C8_Witness ==
    /\ file = CubeFixture
    /\ result.tag = "Ok"
    /\ Len(result.mesh.points) = 108

\* C9: in every returned mesh, output vertex 3k+j holds the position declared
\* by the p-th `v` line and the normal declared by the n-th `vn` line, p and n
\* being the indices of reference j of the k-th face line of the file.
C9_FileOrder ==
    result.tag = "Ok" =>
        \A k \in 1..Len(LinesOf("f")) : \A j \in 1..3 :
            LET ref == FaceRefs(LinesOf("f")[k])[j]
                v   == 3 * (k - 1) + j
            IN  /\ 3 * v <= Len(result.mesh.points)
                /\ 3 * v <= Len(result.mesh.normals)
                /\ ref.p \in 1..Len(LinesOf("vp"))
                /\ ref.n \in 1..Len(LinesOf("vn"))
                /\ SubSeq(result.mesh.points, 3 * v - 2, 3 * v)
                     = Declared(LinesOf("vp")[ref.p], FmtV)
                /\ SubSeq(result.mesh.normals, 3 * v - 2, 3 * v)
                     = Declared(LinesOf("vn")[ref.n], FmtVNormal)

\* C10: the counts count_vertices returns are the numbers of `v `, `vt`, `vn`
\* and `f` lines of the file; the cube fixture gives (8, 0, 6, 12).
C10_Counts ==
    (pc \in {"Parsing", "Done", "Failed"} \/ (pc = "Counting" /\ cursor = Len(file))) =>
        /\ <<unsorted_vp_count, unsorted_vt_count, unsorted_vn_count, face_count>>
             = <<NumLines("vp"), NumLines("vt"), NumLines("vn"), NumLines("f")>>
        /\ file = CubeFixture =>
             <<unsorted_vp_count, unsorted_vt_count, unsorted_vn_count, face_count>>
               = <<8, 0, 6, 12>>

\* count_vertices returned the counts of the cube fixture
C10_Witness ==
    /\ file = CubeFixture
    /\ pc = "Parsing"
    /\ cursor = 0
    /\ face_count = 12

\* C11: count_vertices returns only after it consumed every line, and with the
\* reader back at offset 0; the second pass starts then and not before, and it
\* reads the lines of the file from the first one on, in file order, so that
\* after n lines it has handled exactly the first n lines the counting pass
\* classified.
C11_RewindBetweenPasses ==
    [][/\ (pc = "Counting" /\ pc' = "Parsing") => (cursor = Len(file) /\ cursor' = 0)
       /\ pc' = "Parsing" => pc \in {"Counting", "Parsing"}
       /\ (pc = "Counting" /\ SameLoad) =>
             /\ current_unsorted_vp' = current_unsorted_vp
             /\ current_unsorted_vt' = current_unsorted_vt
             /\ current_unsorted_vn' = current_unsorted_vn
             /\ sorted_vtn'.points = <<>>
       /\ pc' = "Parsing" =>
             /\ cursor' \in 0..Len(file)
             /\ current_unsorted_vp' = NumLinesUpTo("vp", cursor')
             /\ current_unsorted_vt' = NumLinesUpTo("vt", cursor')
             /\ current_unsorted_vn' = NumLinesUpTo("vn", cursor')
             /\ Len(sorted_vtn'.points) = 9 * NumLinesUpTo("f", cursor')]_vars

\* the second pass has read the three lines of a file, a face among them
C11_Witness ==
    /\ pc = "Parsing"
    /\ previous = NoResult
    /\ cursor = 3
    /\ Len(file) = 3
    /\ current_unsorted_vp = 1
    /\ Len(sorted_vtn.points) = 9

\* C12: the counting pass cannot fail on file content: whatever the lines are,
\* empty lines and lines that end in `v` included, count_vertices goes on to
\* the next line or returns its counts.
C12_CountingCompletes ==
    [][(pc = "Counting" /\ SameLoad) => pc' \in {"Counting", "Parsing"}]_vars

\* C13: whatever the lines of the file are, load_obj_mesh ends by returning
\* Ok(mesh) or Err(error); no content makes it panic.
C13_NoPanic == pc # "Panicked"

\* C14: when a line makes the load fail, load_obj_mesh returns an error value
\* and nothing else; a mesh is returned only when every line was consumed, and
\* it then holds the vertices of every face line of the file, so no mesh of
\* only the faces before a failing line is ever returned.
C14_NoPartialMesh ==
    /\ pc \in {"Failed", "Panicked"} => result.tag # "Ok"
    /\ pc = "Failed" => (result.tag = "Err" /\ DOMAIN result = {"tag", "error"})
    /\ result.tag = "Ok" =>
          /\ pc = "Done"
          /\ cursor = Len(file)
          /\ Len(result.mesh.points) = 9 * NumLines("f")

\* the load failed on the fourth line after a face had been expanded
C14_Witness ==
    /\ pc = "Failed"
    /\ cursor = 4
    /\ Len(sorted_vtn.points) = 9
    /\ result = ErrResult("MalformedFaceLine")

\* C15: within one load the loader moves only along Counting -> Parsing -> Done
\* or Counting -> Parsing -> Failed: the Attribute Store and the output buffers
\* are untouched while it counts, a line that cannot be handled moves it from
\* Parsing to Failed at once, Done is entered only from Parsing with every line
\* consumed, and nothing happens after Done or Failed.
C15_PhaseOrder ==
    [][SameLoad =>
         /\ <<pc, pc'>> \in { <<"Counting", "Counting">>, <<"Counting", "Parsing">>,
                              <<"Parsing", "Parsing">>, <<"Parsing", "Done">>,
                              <<"Parsing", "Failed">> }
         /\ pc' = "Counting" =>
               (unsorted_vtn' = unsorted_vtn /\ sorted_vtn' = sorted_vtn)
         /\ pc' = "Done" => (cursor = Len(file) /\ result'.tag = "Ok")
         /\ pc' = "Failed" => result'.tag = "Err"]_vars

C17_MixedGrammars ==
    [][/\ pc' \in {"Failed", "Panicked"} =>
             \E k \in 1..Len(file) :
                 /\ KindOf(file[k]) = "f"
                 /\ FaceGrammar(file[k]) = "none" \/ ~IndicesInRange(file[k])
       /\ AtFaceLine =>
             \E g \in {FaceGrammar(file[cursor + 1])} :
                 (g # "none" /\ IndicesInRange(file[cursor + 1])) =>
                     /\ pc' = "Parsing"
                     /\ Len(sorted_vtn'.points) = Len(sorted_vtn.points) + 9
                     /\ Len(sorted_vtn'.normals) = Len(sorted_vtn.normals) + 9
                     /\ g = "vtn" => Len(sorted_vtn'.tex_coords)
                                        = Len(sorted_vtn.tex_coords) + 6
                     /\ g = "vn" => sorted_vtn'.tex_coords = sorted_vtn.tex_coords]_vars

\* a file with a p/t/n face and a later p//n face was loaded
C17_Witness ==
    /\ pc = "Done"
    /\ previous = NoResult
    /\ Len(origin.points) = 6
    /\ Len(origin.tex_coords) = 3
    /\ origin.tex_coords[1] = origin.points[1]

\* C18: a face line written in one of the two grammars with an index that is 0
\* or above the number of declarations of its attribute makes load_obj_mesh
\* return an IndexOutOfRange error, not a MalformedFaceLine error.
C18_IndexOutOfRange ==
    [][(AtFaceLine /\ FaceGrammar(file[cursor + 1]) # "none"
          /\ ~IndicesInRange(file[cursor + 1]))
         => (pc' = "Failed" /\ result' = ErrResult("IndexOutOfRange"))]_vars

\* C19: on a face line with exactly 6 slashes grammar p/t/n comes first and
\* grammar p//n is used only when p/t/n did not succeed: a line written in
\* neither grammar ends the load with a MalformedFaceLine error and appends
\* nothing, and a line written in one grammar with indices in range is
\* expanded once, under that grammar.
C19_GrammarFallback ==
    [][(AtFaceLine /\ SlashCount(file[cursor + 1], 0) = 6) =>
         \E g \in {FaceGrammar(file[cursor + 1])} :
             /\ g = "none" =>
                   /\ pc' = "Failed"
                   /\ result' = ErrResult("MalformedFaceLine")
                   /\ sorted_vtn' = sorted_vtn
             /\ (g # "none" /\ IndicesInRange(file[cursor + 1])) =>
                   /\ pc' = "Parsing"
                   /\ Len(origin'.points) = Len(origin.points) + 3
                   /\ Len(origin'.normals) = Len(origin.normals) + 3
                   /\ Len(origin'.tex_coords)
                        = Len(origin.tex_coords) + (IF g = "vtn" THEN 3 ELSE 0)
                   /\ Len(sorted_vtn'.points) = Len(sorted_vtn.points) + 9]_vars

\* a p//n face was expanded after p/t/n had not matched it
C19_Witness ==
    /\ pc = "Parsing"
    /\ cursor = 3
    /\ file[3] = FaceVN111
    /\ Len(sorted_vtn.points) = 9
    /\ sorted_vtn.tex_coords = <<>>

\* C20: a `v`, `vt` or `vn` line with a field that is missing or is no number
\* makes load_obj_mesh return a MalformedAttributeLine error; it neither
\* crashes nor goes on with a default value.
C20_MalformedAttribute ==
    [][(pc = "Parsing" /\ cursor < Len(file) /\ MalformedAttribute(file[cursor + 1]))
         => (pc' = "Failed" /\ result' = ErrResult("MalformedAttributeLine"))]_vars

\* C21: a line that is no `v`, `vt`, `vn` or `f` line (an object or group line,
\* a line of blanks, a line of length 0) is ignored by both passes: the pass
\* goes on to the next line with every counter, every Attribute Store slot,
\* every write cursor and every output buffer as it was, and without an error.
C21_OtherLinesIgnored ==
    [][(pc \in {"Counting", "Parsing"} /\ cursor < Len(file)
          /\ KindOf(file[cursor + 1]) = "other") =>
         /\ pc' = pc
         /\ cursor' = cursor + 1
         /\ UNCHANGED <<unsorted_vp_count, unsorted_vt_count, unsorted_vn_count,
                        face_count, unsorted_vtn, sorted_vtn, current_unsorted_vp,
                        current_unsorted_vt, current_unsorted_vn, result>>]_vars

\* C22: load_obj_file on a path that cannot be opened returns the file-not-found
\* error and runs neither pass; on a path that opens it enters load_obj_mesh on
\* the contents of the file, with the reader at its start, and what it returns
\* is what load_obj_mesh returns.
C22_LoadObjFile ==
    [][/\ pc = "OpeningMissing" =>
             /\ pc' = "Failed"
             /\ result' = ErrResult("FileNotFound")
       /\ pc = "Opening" =>
             /\ pc' = "Counting"
             /\ result' = NoResult
             /\ file' = file
       /\ pc \in {"Opening", "OpeningMissing"} =>
             /\ cursor' = 0
             /\ <<unsorted_vp_count', unsorted_vt_count', unsorted_vn_count',
                  face_count'>> = <<0, 0, 0, 0>>
             /\ sorted_vtn' = [points |-> <<>>, tex_coords |-> <<>>, normals |-> <<>>]
       /\ (result = ErrResult("FileNotFound") \/ pc' = "OpeningMissing") =>
             UNCHANGED vars
       /\ result'.tag = "Ok" =>
             result'.mesh = ObjMesh_new(sorted_vtn.points, sorted_vtn.tex_coords,
                                        sorted_vtn.normals)]_vars

\* load_obj_file returned the file-not-found error
C22_Witness ==
    /\ pc = "Failed"
    /\ result = ErrResult("FileNotFound")
    /\ cursor = 0

\* C23: in the second pass the k-th line of a kind (`v`, `vt`, `vn`) is written
\* to slot k-1 of the array of its kind and to no other slot, the write cursor
\* of that array goes from k-1 to k, and the other two arrays and cursors stay
\* as they are; a line whose fields all parse is always written.
C23_NextSlot ==
    [][(pc = "Parsing" /\ cursor < Len(file)) =>
         \E kind \in {KindOf(file[cursor + 1])} :
             kind \in {"vp", "vt", "vn"} =>
                 \E k \in {NumLinesUpTo(kind, cursor) + 1} : \E w \in {Width(kind)} :
                     /\ ~MalformedAttribute(file[cursor + 1]) => pc' = "Parsing"
                     /\ pc' = "Parsing" =>
                           /\ Cursors[kind] = k - 1
                           /\ Cursors' = [Cursors EXCEPT ![kind] = k]
                           /\ unsorted_vtn' =
                                [unsorted_vtn EXCEPT ![kind] =
                                   [i \in 1..Len(@) |->
                                      IF i \in ((k - 1) * w + 1)..(k * w)
                                      THEN DeclaredFields(file[cursor + 1])[i - (k - 1) * w]
                                      ELSE @[i]]]]_vars

\* the second `vt` line of a file was written to slot 1 after a `v` line
C23_Witness ==
    /\ pc = "Parsing"
    /\ current_unsorted_vt = 2
    /\ current_unsorted_vp = 1
    /\ SubSeq(unsorted_vtn.vt, 3, 4) = <<<<7, 0>>, <<8, 0>>>>

\* C24: from the allocation on, each Attribute Store array has exactly as many
\* slots as count_vertices counted lines of its kind; its write cursor never
\* exceeds that count, the slots at and above the cursor are still unwritten
\* (so no slot is written twice), and when the second pass has consumed every
\* line the cursor equals the count.
C24_StoreSized ==
    pc \in {"Parsing", "Done", "Failed"} =>
        \A kind \in {"vp", "vt", "vn"} :
            /\ Len(unsorted_vtn[kind]) = Width(kind) * Counts[kind]
            /\ Cursors[kind] <= Counts[kind]
            /\ \A i \in (Width(kind) * Cursors[kind] + 1)..Len(unsorted_vtn[kind]) :
                   unsorted_vtn[kind][i] = Zero
            /\ pc = "Done" => Cursors[kind] = Counts[kind]

\* a file with two `v` lines and a `vt` line was loaded
C24_Witness ==
    /\ pc = "Done"
    /\ unsorted_vp_count = 2
    /\ current_unsorted_vp = 2
    /\ current_unsorted_vt = 1
    /\ Len(unsorted_vtn.vp) = 6

\* C25: when a face line is expanded, every index it references is at most the
\* current write cursor of its array: the attribute was declared by a line
\* before the face line, so no unwritten slot is copied to the output.
C25_DeclaredBeforeUse ==
    [][(AtFaceLine /\ pc' = "Parsing") =>
         \E a \in {ScanU32(file[cursor + 1], FmtVTN, 9)} :
             IF is_valid_vtn_triple(a)
             THEN \A j \in 1..3 : /\ a[3 * j - 2].val <= current_unsorted_vp
                                  /\ a[3 * j - 1].val <= current_unsorted_vt
                                  /\ a[3 * j].val <= current_unsorted_vn
             ELSE \E b \in {ScanU32(file[cursor + 1], FmtVN, 6)} :
                      \A j \in 1..3 : /\ b[2 * j - 1].val <= current_unsorted_vp
                                       /\ b[2 * j].val <= current_unsorted_vn]_vars

\* C26: a face line whose indices pass the validation loop of parse_vtn or
\* parse_vn has every index between 1 and the number of declarations of its
\* kind, and the copy loop that follows reads inside the arrays: the line is
\* expanded without a crash.
C26_ValidatedInRange ==
    [][(AtFaceLine /\ SlashCount(file[cursor + 1], 0) = 6
          /\ PassesValidation(file[cursor + 1]))
         => (IndicesInRange(file[cursor + 1]) /\ pc' = "Parsing")]_vars

\* C27: a face line is expanded whole or not at all.  When its processing
\* returns an error, points, tex_coords and normals are as they were before
\* the line, whichever grammar was attempted and wherever the validation loop
\* stopped; when it goes on, exactly three vertices were appended after the
\* ones already there: 9 floats to points, 9 to normals, and 6 or none to
\* tex_coords.
C27_AllOrNothing ==
    [][AtFaceLine =>
         /\ pc' = "Failed" => sorted_vtn' = sorted_vtn
         /\ pc' = "Parsing" =>
               /\ Len(sorted_vtn'.points) = Len(sorted_vtn.points) + 9
               /\ Len(sorted_vtn'.normals) = Len(sorted_vtn.normals) + 9
               /\ Len(sorted_vtn'.tex_coords) - Len(sorted_vtn.tex_coords) \in {0, 6}
               /\ SubSeq(sorted_vtn'.points, 1, Len(sorted_vtn.points)) = sorted_vtn.points
               /\ SubSeq(sorted_vtn'.normals, 1, Len(sorted_vtn.normals)) = sorted_vtn.normals
               /\ SubSeq(sorted_vtn'.tex_coords, 1, Len(sorted_vtn.tex_coords))
                    = sorted_vtn.tex_coords]_vars

\* the load failed on a face whose first vertex is in range and whose second
\* is not, after an earlier face had been expanded: the buffers hold that
\* earlier face only
C27_Witness ==
    /\ pc = "Failed"
    /\ cursor = 4
    /\ file[3] = FaceVN111
    /\ file[4] = FaceVN141
    /\ Len(unsorted_vtn.vp) = 3
    /\ Len(unsorted_vtn.vn) = 3
    /\ Len(sorted_vtn.points) = 9
    /\ result = ErrResult("MalformedFaceLine")

\* C28: the second pass keeps declarations and expansion apart.  A face line,
\* expanded or refused, leaves the three arrays of the Attribute Store and the
\* three write cursors as they were; a `v`, `vt` or `vn` line leaves points,
\* tex_coords and normals as they were.
C28_Frame ==
    [][(pc = "Parsing" /\ cursor < Len(file)) =>
         \E kind \in {KindOf(file[cursor + 1])} :
             /\ kind = "f" => (unsorted_vtn' = unsorted_vtn /\ Cursors' = Cursors)
             /\ kind \in {"vp", "vt", "vn"} => sorted_vtn' = sorted_vtn]_vars

\* a second `v` line was stored after a face had been expanded: the buffers
\* hold the face alone, the store and the cursor hold both positions
C28_Witness ==
    /\ pc = "Parsing"
    /\ cursor = 4
    /\ KindOf(file[3]) = "f"
    /\ KindOf(file[4]) = "vp"
    /\ current_unsorted_vp = 2
    /\ Len(unsorted_vtn.vp) = 6
    /\ Len(sorted_vtn.points) = 9

\* C29: in every mesh load_obj_mesh returns, tex_coords holds 6 floats for each
\* face line written in grammar p/t/n and nothing for a face line written in
\* grammar p//n, and normals holds 9 floats for each face line; so tex_coords
\* is empty when every face is p//n, whatever `vt` lines the file declares.
C29_BufferLengths ==
    result.tag = "Ok" =>
        /\ Len(result.mesh.tex_coords) = 6 * NumFaces("vtn")
        /\ Len(result.mesh.normals) = 9 * NumLines("f")
        /\ NumFaces("vtn") = 0 => result.mesh.tex_coords = <<>>

\* a file with a `vt` line and two p//n faces was loaded
C29_Witness ==
    /\ result.tag = "Ok"
    /\ NumLines("vt") = 1
    /\ NumLines("f") = 2
    /\ NumFaces("vn") = 2
    /\ Len(result.mesh.normals) = 18
    /\ result.mesh.tex_coords = <<>>

\* C30: the loader of demo 06, on a file whose face lines are all written in
\* grammar p//n with indices in range (the cube fixture is one), does not
\* crash and ends with Ok of the mesh its test expects: point_count the number
\* of `v` lines, points the declared positions in file order, normals the
\* declared normals in file order, tex_coords empty.
C30_Demo06Mesh ==
    (NumLines("f") >= 1 /\ NumFaces("vn") = NumLines("f")
       /\ \A k \in 1..Len(file) : KindOf(file[k]) = "f" => IndicesInRange(file[k])) =>
        /\ pc # "Panicked"
        /\ pc = "Done" =>
              result = [tag |-> "Ok",
                        mesh |-> [point_count |-> NumLines("vp"),
                                  points      |-> DeclaredInOrder("vp"),
                                  tex_coords  |-> <<>>,
                                  normals     |-> DeclaredInOrder("vn")]]

====
